---- MODULE Spec2Model ----
(* EAS attestation registry (contracts/eas/src/lib.rs) as a state machine.   *)
(* One action per contract entry point. A panicking call rolls back every    *)
(* write and event of that call, so it leaves the state as it was; the       *)
(* operators *_err give the panic message of a call ("ok" when it returns).  *)
EXTENDS Integers, Sequences, FiniteSets, TLC

VARIABLES
    schemas,       \* persistent storage, DataKey::Schema(id) -> Schema
    attestations,  \* persistent storage, DataKey::Attestation(id) -> Attestation
    nonces,        \* persistent storage, DataKey::Nonce(address) -> u64
    next_att_id,   \* instance storage, DataKey::NextAttId -> Option<u64>
    events,        \* the events published so far, oldest first
    ledger_seq,    \* env.ledger().sequence()
    accepted       \* history: the attest calls that returned, with what they returned

vars == <<schemas, attestations, nonces, next_att_id, events, ledger_seq, accepted>>

store == <<schemas, attestations, nonces, next_att_id, events>>

(* ---------------------------------------------------------------- bounds *)
\* largest ledger sequence number the clock reaches
MaxSeq == 2
\* largest value of the modelled u64 (stands for u64::MAX = 2^64 - 1)
U64_MAX == 2
\* cap on the length of the event log (number of successful mutating calls)
MaxEvents == 6
\* cap on the number of attest calls that return (one more than U64_MAX, so
\* that the counters reach their largest value and one more call follows)
MaxAttests == 3

(* ------------------------------------------------------ program constants *)
MODE_PERMISSIONLESS == 0
MODE_ISSUER_ONLY == 1
\* BytesN<32>
ID_LEN == 32
\* the counter occupies bytes 24..32 of the identifier
ID_PREFIX == 24
\* one byte holds 0..255
BYTE == 256

\* the principals (Address values), schema content hashes and payload hashes the
\* calls draw from; the code only compares them for equality
Addr == {"a1", "a2"}
Creators == {"a1"}
Subjects == {"a2"}
Hash == {"h1"}
DataHash == {"d1"}
Mode == {MODE_PERMISSIONLESS, MODE_ISSUER_ONLY, 2}
U64 == 0..U64_MAX

\* Option<T>: None is the empty sequence, Some(x) the one-element sequence
None == <<>>
Some(x) == <<x>>
is_some(o) == o /= None
unwrap(o) == o[1]
unwrap_or(o, d) == IF is_some(o) THEN unwrap(o) ELSE d

\* u64::saturating_add
saturating_add(x, y) == IF x + y > U64_MAX THEN U64_MAX ELSE x + y

\* k-th byte from the right of n (k = 0 is the least significant)
RECURSIVE byte_of(_, _)
byte_of(n, k) == IF k = 0 THEN n % BYTE ELSE byte_of(n \div BYTE, k - 1)

\* u64::to_be_bytes: 8 bytes, most significant first
to_be_bytes(n) == [i \in 1..(ID_LEN - ID_PREFIX) |-> byte_of(n, (ID_LEN - ID_PREFIX) - i)]

\* the 32-byte identifier derived from the counter value n
id_from_counter(n) ==
    [i \in 1..ID_LEN |-> IF i <= ID_PREFIX THEN 0 ELSE to_be_bytes(n)[i - ID_PREFIX]]

\* identifiers the calls draw from: the encodings of 0..U64_MAX (0 is never
\* allocated) and one identifier outside the allocator's image
IdInputs == {id_from_counter(n) : n \in U64} \cup {[i \in 1..ID_LEN |-> 9]}

ExpInputs == {None} \cup {Some(e) : e \in 1..MaxSeq}

\* storage get on a map keyed by typed keys: absent is None
storage_get(m, k) == IF k \in DOMAIN m THEN Some(m[k]) ELSE None
storage_set(m, k, v) == [x \in (DOMAIN m) \cup {k} |-> IF x = k THEN v ELSE m[x]]

now_ledger == ledger_seq

get_nonce(attester) == unwrap_or(storage_get(nonces, attester), 0)


(* -------------------------------------------------------------- events *)
emit_schema_created(schema_id, creator, schema_uri_hash, revocable, expires_allowed, attester_mode) ==
    [topic |-> "SchemaCreated", schema_id |-> schema_id, creator |-> creator,
     schema_uri_hash |-> schema_uri_hash, revocable |-> revocable,
     expires_allowed |-> expires_allowed, attester_mode |-> attester_mode,
     ledger |-> now_ledger]

emit_attested(attestation_id, schema_id, attester, subject, data_hash, timestamp, expiration) ==
    [topic |-> "Attested", attestation_id |-> attestation_id, schema_id |-> schema_id,
     attester |-> attester, subject |-> subject, data_hash |-> data_hash,
     timestamp |-> timestamp, expiration |-> expiration]

emit_revoked(attestation_id, revoker) ==
    [topic |-> "Revoked", attestation_id |-> attestation_id, revoker |-> revoker,
     ledger |-> now_ledger]

(* ------------------------------------------------- identifier allocator *)
\* the counter value next_attestation_id stores
next_counter == saturating_add(unwrap_or(next_att_id, 0), 1)

\* the identifier next_attestation_id returns
next_attestation_id == id_from_counter(next_counter)

(* --------------------------------------------------------- create_schema *)
\* mutant: no authorization is required
require_auth_skipped(caller, principal) == TRUE

\* require_auth: the invoking context authorizes exactly the principal caller
require_auth(caller, principal) == caller = principal

\* mutant: a range check that lets the first undefined value through
valid_attester_mode_up_to_two(attester_mode) == attester_mode <= 2

valid_attester_mode(attester_mode) ==
    attester_mode = MODE_PERMISSIONLESS \/ attester_mode = MODE_ISSUER_ONLY

\* mutant: the duplicate check is skipped
create_schema_err_no_duplicate_check(caller, creator, schema_uri_hash, attester_mode) ==
    IF ~require_auth(caller, creator) THEN "unauthorized"
    ELSE IF ~valid_attester_mode(attester_mode) THEN "invalid_attester_mode"
    ELSE "ok"

create_schema_err(caller, creator, schema_uri_hash, attester_mode) ==
    IF ~require_auth(caller, creator) THEN "unauthorized"
    ELSE IF ~valid_attester_mode(attester_mode) THEN "invalid_attester_mode"
    ELSE IF schema_uri_hash \in DOMAIN schemas THEN "schema_already_exists"
    ELSE "ok"

create_schema(caller, creator, schema_uri_hash, revocable, expires_allowed, attester_mode) ==
    LET err == create_schema_err(caller, creator, schema_uri_hash, attester_mode)
        schema_id == schema_uri_hash
        schema == [schema_uri_hash |-> schema_uri_hash, creator |-> creator,
                   revocable |-> revocable, expires_allowed |-> expires_allowed,
                   attester_mode |-> attester_mode]
    IN  \/ /\ err = "ok"
           /\ Len(events) < MaxEvents
           /\ schemas' = storage_set(schemas, schema_id, schema)
           /\ events' = Append(events,
                  emit_schema_created(schema_id, schema.creator, schema.schema_uri_hash,
                      schema.revocable, schema.expires_allowed, schema.attester_mode))
           /\ UNCHANGED <<attestations, nonces, next_att_id, ledger_seq, accepted>>
        \/ /\ err /= "ok"
           /\ UNCHANGED vars

(* ---------------------------------------------------------------- attest *)
\* mutant: only an expiration that is not in the future is refused
expiration_forbidden_if_past(schema, expiration) ==
    is_some(expiration) /\ ~schema.expires_allowed /\ unwrap(expiration) <= now_ledger

expiration_forbidden(schema, expiration) ==
    is_some(expiration) /\ ~schema.expires_allowed

\* mutant: the comparison with the creator inverted
issuer_only_violation_inverted(schema, attester) ==
    schema.attester_mode = MODE_ISSUER_ONLY /\ attester = schema.creator

issuer_only_violation(schema, attester) ==
    schema.attester_mode = MODE_ISSUER_ONLY /\ attester /= schema.creator

nonce_accepted(current_nonce, nonce) == nonce = saturating_add(current_nonce, 1)

\* mutant: a missing schema is not an error, and imposes no policy
attest_err_schema_unchecked(caller, attester, schema_id, expiration, nonce) ==
    IF ~require_auth(caller, attester) THEN "unauthorized"
    ELSE IF schema_id \in DOMAIN schemas
            /\ expiration_forbidden(schemas[schema_id], expiration)
         THEN "expiration_not_allowed"
    ELSE IF schema_id \in DOMAIN schemas
            /\ issuer_only_violation(schemas[schema_id], attester)
         THEN "issuer_only"
    ELSE IF ~nonce_accepted(get_nonce(attester), nonce) THEN "bad_nonce"
    ELSE "ok"

\* mutant: the issuer check runs before the expiration check
attest_err_issuer_first(caller, attester, schema_id, expiration, nonce) ==
    IF ~require_auth(caller, attester) THEN "unauthorized"
    ELSE IF schema_id \notin DOMAIN schemas THEN "schema_not_found"
    ELSE IF issuer_only_violation(schemas[schema_id], attester) THEN "issuer_only"
    ELSE IF expiration_forbidden(schemas[schema_id], expiration) THEN "expiration_not_allowed"
    ELSE IF ~nonce_accepted(get_nonce(attester), nonce) THEN "bad_nonce"
    ELSE "ok"

attest_err(caller, attester, schema_id, expiration, nonce) ==
    IF ~require_auth(caller, attester) THEN "unauthorized"
    ELSE IF schema_id \notin DOMAIN schemas THEN "schema_not_found"
    ELSE IF expiration_forbidden(schemas[schema_id], expiration) THEN "expiration_not_allowed"
    ELSE IF issuer_only_violation(schemas[schema_id], attester) THEN "issuer_only"
    ELSE IF ~nonce_accepted(get_nonce(attester), nonce) THEN "bad_nonce"
    ELSE "ok"

\* mutant: the nonce is written before the schema and policy checks, and the
\* write survives a call that fails them
attest_burns_nonce(caller, attester, schema_id, subject, data_hash, expiration, nonce) ==
    LET err == attest_err(caller, attester, schema_id, expiration, nonce)
        attestation_id == next_attestation_id
        attestation == [schema_id |-> schema_id, attester |-> attester,
                        subject |-> subject, data_hash |-> data_hash,
                        timestamp |-> now_ledger, expiration |-> expiration,
                        revoked |-> FALSE]
    IN  \/ /\ err = "ok"
           /\ Len(events) < MaxEvents
           /\ Len(accepted) < MaxAttests
           /\ nonces' = storage_set(nonces, attester, nonce)
           /\ next_att_id' = Some(next_counter)
           /\ attestations' = storage_set(attestations, attestation_id, attestation)
           /\ events' = Append(events,
                  emit_attested(attestation_id, schema_id, attester, subject, data_hash,
                                now_ledger, attestation.expiration))
           /\ accepted' = Append(accepted, [attester |-> attester, nonce |-> nonce,
                                             id |-> attestation_id])
           /\ UNCHANGED <<schemas, ledger_seq>>
        \/ /\ err \in {"schema_not_found", "expiration_not_allowed", "issuer_only"}
           /\ nonces' = storage_set(nonces, attester, nonce)
           /\ UNCHANGED <<schemas, attestations, next_att_id, events, ledger_seq, accepted>>
        \/ /\ err \in {"unauthorized", "bad_nonce"}
           /\ UNCHANGED vars

attest(caller, attester, schema_id, subject, data_hash, expiration, nonce) ==
    LET err == attest_err(caller, attester, schema_id, expiration, nonce)
        attestation_id == next_attestation_id
        timestamp == now_ledger
        attestation == [schema_id |-> schema_id, attester |-> attester,
                        subject |-> subject, data_hash |-> data_hash,
                        timestamp |-> timestamp, expiration |-> expiration,
                        revoked |-> FALSE]
    IN  \/ /\ err = "ok"
           /\ Len(events) < MaxEvents
           /\ Len(accepted) < MaxAttests
           /\ nonces' = storage_set(nonces, attester, nonce)
           /\ next_att_id' = Some(next_counter)
           /\ attestations' = storage_set(attestations, attestation_id, attestation)
           /\ events' = Append(events,
                  emit_attested(attestation_id, schema_id, attester, subject, data_hash,
                                timestamp, attestation.expiration))
           /\ accepted' = Append(accepted, [attester |-> attester, nonce |-> nonce,
                                             id |-> attestation_id])
           /\ UNCHANGED <<schemas, ledger_seq>>
        \/ /\ err /= "ok"
           /\ UNCHANGED vars

(* ------------------------------------------------------------- revoke_by *)
\* mutant: the subject may revoke too
is_attester_or_subject(att, revoker) == revoker = att.attester \/ revoker = att.subject

is_attester(att, revoker) == revoker = att.attester

\* mutant: the revocable flag is not consulted
is_revocable_always(schema) == TRUE

is_revocable(schema) == schema.revocable

\* mutant: the revocable flag is checked before the revoker
revoke_by_err_revocable_first(caller, revoker, attestation_id) ==
    IF ~require_auth(caller, revoker) THEN "unauthorized"
    ELSE IF attestation_id \notin DOMAIN attestations THEN "attestation_not_found"
    ELSE IF attestations[attestation_id].schema_id \notin DOMAIN schemas
         THEN "schema_not_found"
    ELSE IF ~is_revocable(schemas[attestations[attestation_id].schema_id])
         THEN "not_revocable"
    ELSE IF ~is_attester(attestations[attestation_id], revoker) THEN "not_attester"
    ELSE "ok"

revoke_by_err(caller, revoker, attestation_id) ==
    IF ~require_auth(caller, revoker) THEN "unauthorized"
    ELSE IF attestation_id \notin DOMAIN attestations THEN "attestation_not_found"
    ELSE IF ~is_attester(attestations[attestation_id], revoker) THEN "not_attester"
    ELSE IF attestations[attestation_id].schema_id \notin DOMAIN schemas
         THEN "schema_not_found"
    ELSE IF ~is_revocable(schemas[attestations[attestation_id].schema_id])
         THEN "not_revocable"
    ELSE "ok"

revoke_by(caller, revoker, attestation_id) ==
    LET err == revoke_by_err(caller, revoker, attestation_id)
    IN  \/ /\ err = "ok"
           /\ attestations[attestation_id].revoked
           /\ UNCHANGED vars
        \/ /\ err = "ok"
           /\ ~attestations[attestation_id].revoked
           /\ Len(events) < MaxEvents
           /\ attestations' = [attestations EXCEPT ![attestation_id].revoked = TRUE]
           /\ events' = Append(events, emit_revoked(attestation_id, revoker))
           /\ UNCHANGED <<schemas, nonces, next_att_id, ledger_seq, accepted>>
        \/ /\ err /= "ok"
           /\ UNCHANGED vars

(* ---------------------------------------------------------------- verify *)
\* mutant: the boundary now = expiration counts as not yet expired
is_expired_strict(expiration, now) ==
    IF is_some(expiration) THEN now > unwrap(expiration) ELSE FALSE

is_expired(expiration, now) ==
    IF is_some(expiration) THEN now >= unwrap(expiration) ELSE FALSE

is_valid(revoked, expired) == ~revoked /\ ~expired

verify_result(att, now) ==
    [exists |-> TRUE,
     valid |-> is_valid(att.revoked, is_expired(att.expiration, now)),
     revoked |-> att.revoked,
     expired |-> is_expired(att.expiration, now),
     schema_id |-> att.schema_id, attester |-> att.attester, subject |-> att.subject,
     data_hash |-> att.data_hash, timestamp |-> att.timestamp,
     expiration |-> att.expiration]

\* mutant: an absent identifier is answered with a populated result whose exists
\* field is false
verify_of_absent_populated(attestation_id) ==
    IF attestation_id \in DOMAIN attestations
    THEN Some(verify_result(attestations[attestation_id], now_ledger))
    ELSE Some([exists |-> FALSE, valid |-> FALSE, revoked |-> FALSE, expired |-> FALSE])

\* what verify(attestation_id) returns in the current state
verify_of(attestation_id) ==
    IF attestation_id \in DOMAIN attestations
    THEN Some(verify_result(attestations[attestation_id], now_ledger))
    ELSE None

\* mutant: verify marks a record it finds expired as revoked
verify_marks_expired(attestation_id) ==
    IF /\ attestation_id \in DOMAIN attestations
       /\ is_expired(attestations[attestation_id].expiration, now_ledger)
       /\ ~attestations[attestation_id].revoked
    THEN /\ attestations' = [attestations EXCEPT ![attestation_id].revoked = TRUE]
         /\ UNCHANGED <<schemas, nonces, next_att_id, events, ledger_seq, accepted>>
    ELSE UNCHANGED vars

\* the call reads storage and the clock, returns verify_of(attestation_id) and
\* writes nothing; it never panics
verify(attestation_id) == UNCHANGED vars

(* ----------------------------------------------------------------- reads *)
\* the read entry points return a value (get_nonce, schemas[..], attestations[..])
\* or panic with the message *_err gives, and write nothing
get_nonce_call(attester) == UNCHANGED vars

get_schema_err(schema_id) ==
    IF schema_id \notin DOMAIN schemas THEN "schema_not_found" ELSE "ok"

get_schema(schema_id) == UNCHANGED vars

get_attestation_err(attestation_id) ==
    IF attestation_id \notin DOMAIN attestations THEN "attestation_not_found" ELSE "ok"

get_attestation(attestation_id) == UNCHANGED vars

(* ----------------------------------------------------------------- clock *)
\* the host closes a ledger: the sequence number grows by one
LedgerClose ==
    /\ ledger_seq < MaxSeq
    /\ ledger_seq' = ledger_seq + 1
    /\ UNCHANGED <<store, accepted>>

(* --------------------------------------------------------- specification *)
Init ==
    /\ schemas = <<>>
    /\ attestations = <<>>
    /\ nonces = <<>>
    /\ next_att_id = None
    /\ events = <<>>
    /\ ledger_seq = 1
    /\ accepted = <<>>

CreateSchema ==
    \E caller \in Addr, creator \in Creators, h \in Hash, revocable \in BOOLEAN,
       expires_allowed \in BOOLEAN, m \in Mode :
        create_schema(caller, creator, h, revocable, expires_allowed, m)

Attest ==
    \E caller \in Addr, attester \in Addr, schema_id \in Hash, subject \in Subjects,
       data_hash \in DataHash, expiration \in ExpInputs, nonce \in U64 :
        attest(caller, attester, schema_id, subject, data_hash, expiration, nonce)

RevokeBy ==
    \E caller \in Addr, revoker \in Addr, id \in IdInputs : revoke_by(caller, revoker, id)

Verify == \E id \in IdInputs : verify(id)

GetNonce == \E a \in Addr : get_nonce_call(a)

GetSchema == \E h \in Hash : get_schema(h)

GetAttestation == \E id \in IdInputs : get_attestation(id)

Next ==
    \/ CreateSchema
    \/ Attest
    \/ RevokeBy
    \/ Verify
    \/ GetNonce
    \/ GetSchema
    \/ GetAttestation
    \/ LedgerClose

Spec == Init /\ [][Next]_vars

(* ================================================================ claims *)
\* the Attested events of attester a, and the Revoked events of identifier id
AttestedBy(a) ==
    {i \in DOMAIN events : events[i].topic = "Attested" /\ events[i].attester = a}

RevokedEventsOf(id) ==
    {i \in DOMAIN events : events[i].topic = "Revoked" /\ events[i].attestation_id = id}

\* the schema lets an attest call carry this expiration
ExpirationPermitted(s, exp) == exp = None \/ schemas[s].expires_allowed

\* the schema lets this principal attest
AttesterPermitted(s, a) ==
    schemas[s].attester_mode /= MODE_ISSUER_ONLY \/ a = schemas[s].creator

\* identifiers compared as big-endian numbers
IdLess(x, y) ==
    \E k \in 1..ID_LEN : x[k] < y[k] /\ \A m \in 1..(k - 1) : x[m] = y[m]

\* C1: every attester's nonce is 0 before its first accepted attestation and
\* each accepted attest raises it by exactly 1, so get_nonce(a) always equals
\* the number of attest calls by a that were accepted.
C1_NonceCountsAccepted ==
    \A a \in Addr : get_nonce(a) = Cardinality(AttestedBy(a))

\* C2: an authorized attest call whose schema and policy checks pass and whose
\* nonce is anything but get_nonce(a) + 1 fails with bad_nonce.
C2_OtherNonceRejected ==
    \A a \in Addr, s \in DOMAIN schemas, exp \in ExpInputs, n \in U64 :
        (/\ ExpirationPermitted(s, exp)
         /\ AttesterPermitted(s, a)
         /\ n /= get_nonce(a) + 1)
        => attest_err(a, a, s, exp, n) = "bad_nonce"

\* C3: for each attester and each nonce value at most one attest call is ever
\* accepted.
C3_NoReplay ==
    \A i, j \in DOMAIN accepted :
        (i < j /\ accepted[i].attester = accepted[j].attester)
        => accepted[i].nonce /= accepted[j].nonce

\* C4: the identifiers returned by attest are strictly increasing in allocation
\* order (hence pairwise distinct).
C4_IdsStrictlyIncreasing ==
    \A i, j \in DOMAIN accepted : i < j => IdLess(accepted[i].id, accepted[j].id)

\* C5 as stated: under an IssuerOnly schema every attest call by a non-creator
\* fails with issuer_only, the creator's call with the next nonce succeeds, and
\* every stored attestation under the schema is the creator's.
C5_IssuerOnlyAsStated ==
    \A s \in DOMAIN schemas :
        schemas[s].attester_mode = MODE_ISSUER_ONLY =>
            /\ \A a \in Addr \ {schemas[s].creator}, exp \in ExpInputs, n \in U64 :
                   attest_err(a, a, s, exp, n) = "issuer_only"
            /\ \A exp \in ExpInputs, n \in U64 :
                   n = get_nonce(schemas[s].creator) + 1
                   => attest_err(schemas[s].creator, schemas[s].creator, s, exp, n) = "ok"
            /\ \A id \in DOMAIN attestations :
                   attestations[id].schema_id = s
                   => attestations[id].attester = schemas[s].creator

\* C5 amended: under an IssuerOnly schema an attest call by a non-creator always
\* fails, with issuer_only when the schema permits its expiration and with
\* expiration_not_allowed when it does not; the creator's call with the next
\* nonce and a permitted expiration succeeds; every stored attestation under the
\* schema is the creator's.
C5_IssuerOnly ==
    \A s \in DOMAIN schemas :
        schemas[s].attester_mode = MODE_ISSUER_ONLY =>
            /\ \A a \in Addr \ {schemas[s].creator}, exp \in ExpInputs, n \in U64 :
                   attest_err(a, a, s, exp, n) =
                       IF ExpirationPermitted(s, exp) THEN "issuer_only"
                       ELSE "expiration_not_allowed"
            /\ \A exp \in ExpInputs, n \in U64 :
                   (n = get_nonce(schemas[s].creator) + 1 /\ ExpirationPermitted(s, exp))
                   => attest_err(schemas[s].creator, schemas[s].creator, s, exp, n) = "ok"
            /\ \A id \in DOMAIN attestations :
                   attestations[id].schema_id = s
                   => attestations[id].attester = schemas[s].creator

\* an IssuerOnly schema under which the creator has attested while the other
\* principal is turned away with issuer_only
C5_Witness ==
    \E s \in DOMAIN schemas, id \in DOMAIN attestations, a \in Addr :
        /\ schemas[s].attester_mode = MODE_ISSUER_ONLY
        /\ attestations[id].schema_id = s
        /\ a /= schemas[s].creator
        /\ attest_err(a, a, s, None, get_nonce(a) + 1) = "issuer_only"

\* C6: under a schema with expires_allowed = false every attest call that
\* supplies Some(expiration) fails with expiration_not_allowed whatever the
\* value, so every stored attestation under it has expiration None.
C6_ExpirationPolicy ==
    \A s \in DOMAIN schemas :
        ~schemas[s].expires_allowed =>
            /\ \A a \in Addr, e \in 0..(MaxSeq + 1), n \in U64 :
                   attest_err(a, a, s, Some(e), n) = "expiration_not_allowed"
            /\ \A id \in DOMAIN attestations :
                   attestations[id].schema_id = s => attestations[id].expiration = None

\* a schema that disallows expiration, with an attestation stored under it
C6_Witness ==
    \E s \in DOMAIN schemas, id \in DOMAIN attestations :
        /\ ~schemas[s].expires_allowed
        /\ attestations[id].schema_id = s
        /\ attest_err(attestations[id].attester, attestations[id].attester, s,
                      Some(ledger_seq + 1), get_nonce(attestations[id].attester) + 1)
               = "expiration_not_allowed"

\* C7: for every stored attestation verify reports revoked = the stored flag,
\* expired = (expiration is Some(e) and now >= e) and valid = neither; an
\* attestation without expiration never expires, one whose expiration is its
\* issuance time is expired in every state, and an unrevoked one is valid while
\* now < e.
C7_VerifyVerdict ==
    \A id \in DOMAIN attestations :
        LET att == attestations[id]
            r == unwrap(verify_of(id))
        IN  /\ verify_of(id) /= None
            /\ r.revoked = att.revoked
            /\ r.expired = (att.expiration /= None /\ ledger_seq >= att.expiration[1])
            /\ r.valid = (~att.revoked /\ ~r.expired)
            /\ (att.expiration = None => ~r.expired)
            /\ (att.expiration = Some(att.timestamp) => (r.expired /\ ~r.valid))
            /\ ((att.expiration /= None /\ ~att.revoked) =>
                    IF ledger_seq < att.expiration[1] THEN r.valid ELSE ~r.valid)

\* an unrevoked attestation issued before its expiration, seen exactly at the
\* boundary now = e, where verify reports it expired
C7_Witness ==
    \E id \in DOMAIN attestations :
        /\ attestations[id].expiration = Some(ledger_seq)
        /\ attestations[id].timestamp < ledger_seq
        /\ ~attestations[id].revoked
        /\ unwrap(verify_of(id)).expired
        /\ ~unwrap(verify_of(id)).valid

\* C8: revoke_by on an existing attestation by anyone but its attester fails
\* with not_attester, and the revoked flag of an attestation turns true only in
\* a step that publishes Revoked with the attestation's own attester as revoker.
C8_OnlyAttesterRevokes ==
    /\ [](\A id \in DOMAIN attestations, r \in Addr :
              r /= attestations[id].attester => revoke_by_err(r, r, id) = "not_attester")
    /\ [][\A id \in DOMAIN attestations :
              (~attestations[id].revoked /\ attestations'[id].revoked)
              => events' = Append(events, emit_revoked(id, attestations[id].attester))]_vars

\* an attestation that has been revoked, about a subject who is not its attester
C8_Witness ==
    \E id \in DOMAIN attestations :
        /\ attestations[id].revoked
        /\ attestations[id].subject /= attestations[id].attester
        /\ revoke_by_err(attestations[id].subject, attestations[id].subject, id)
               = "not_attester"

\* C9: every revoke_by call on an attestation under a schema with revocable =
\* false fails, so no such attestation is revoked and verify reports
\* revoked = false for it.
C9_NonRevocableNeverRevoked ==
    \A id \in DOMAIN attestations :
        (/\ attestations[id].schema_id \in DOMAIN schemas
         /\ ~schemas[attestations[id].schema_id].revocable)
        => /\ \A c \in Addr, r \in Addr : revoke_by_err(c, r, id) /= "ok"
           /\ ~attestations[id].revoked
           /\ ~unwrap(verify_of(id)).revoked

\* an attestation under a non-revocable schema whose own attester is refused
C9_Witness ==
    \E id \in DOMAIN attestations :
        /\ ~schemas[attestations[id].schema_id].revocable
        /\ revoke_by_err(attestations[id].attester, attestations[id].attester, id)
               = "not_revocable"

\* C10: revoking an already revoked attestation is a no-op that publishes
\* nothing, so the event log holds at most one Revoked event per identifier.
C10_OneRevokedEventPerId ==
    \A id \in IdInputs : Cardinality(RevokedEventsOf(id)) <= 1

\* C11: the revoked flag of an identifier, once true, is true in every later
\* state: no step turns it back to false.
C11_RevokedStaysRevoked ==
    [][\A id \in DOMAIN attestations :
           attestations[id].revoked
           => (id \in DOMAIN attestations' /\ attestations'[id].revoked)]_vars

\* a stored schema is kept as it is by the step: same creator, flags and mode,
\* still stored
SchemasKept ==
    \A h \in DOMAIN schemas : h \in DOMAIN schemas' /\ schemas'[h] = schemas[h]

\* every schema is stored, and was announced, under its schema_uri_hash
SchemaIdIsHash ==
    /\ \A h \in DOMAIN schemas : schemas[h].schema_uri_hash = h
    /\ \A i \in DOMAIN events :
           events[i].topic = "SchemaCreated"
           => events[i].schema_id = events[i].schema_uri_hash

\* C12 as stated: create_schema on a registered schema_uri_hash fails with
\* schema_already_exists whatever the creator, the flags and the attester_mode
\* are; the identifier is the schema_uri_hash; stored schemas never change and
\* are never removed.
C12_SchemasUniqueAsStated ==
    /\ [](/\ \A c \in Addr, h \in DOMAIN schemas, m \in Mode :
                 create_schema_err(c, c, h, m) = "schema_already_exists"
          /\ SchemaIdIsHash)
    /\ [][SchemasKept]_vars

\* C12: create_schema on a registered schema_uri_hash with a valid attester_mode
\* fails with schema_already_exists whatever the creator and the flags are (with
\* an invalid attester_mode it fails with invalid_attester_mode); the identifier
\* is the schema_uri_hash; stored schemas never change and are never removed.
C12_SchemasUnique ==
    /\ [](/\ \A c \in Addr, h \in DOMAIN schemas, m \in Mode :
                 create_schema_err(c, c, h, m) =
                     IF valid_attester_mode(m) THEN "schema_already_exists"
                     ELSE "invalid_attester_mode"
          /\ SchemaIdIsHash)
    /\ [][SchemasKept]_vars

\* a schema is stored, some principal is not its creator, and two more calls
\* have been accepted since its creation
C12_Witness ==
    \E h \in DOMAIN schemas :
        /\ \E c \in Addr : c /= schemas[h].creator
        /\ Len(events) >= 3
        /\ events[1].topic = "SchemaCreated"

\* C13: a record stored under an identifier stays stored under it, and every
\* field of it other than revoked is the same after every step.
C13_RecordBoundToId ==
    [][\A id \in DOMAIN attestations :
           /\ id \in DOMAIN attestations'
           /\ attestations'[id].schema_id = attestations[id].schema_id
           /\ attestations'[id].attester = attestations[id].attester
           /\ attestations'[id].subject = attestations[id].subject
           /\ attestations'[id].data_hash = attestations[id].data_hash
           /\ attestations'[id].timestamp = attestations[id].timestamp
           /\ attestations'[id].expiration = attestations[id].expiration]_vars

\* the step is a call of create_schema, attest or revoke_by that fails
FailingCall ==
    \/ \E caller \in Addr, creator \in Creators, h \in Hash, revocable \in BOOLEAN,
          expires_allowed \in BOOLEAN, m \in Mode :
           /\ create_schema_err(caller, creator, h, m) /= "ok"
           /\ create_schema(caller, creator, h, revocable, expires_allowed, m)
    \/ \E caller \in Addr, attester \in Addr, schema_id \in Hash, subject \in Subjects,
          data_hash \in DataHash, expiration \in ExpInputs, nonce \in U64 :
           /\ attest_err(caller, attester, schema_id, expiration, nonce) /= "ok"
           /\ attest(caller, attester, schema_id, subject, data_hash, expiration, nonce)
    \/ \E caller \in Addr, revoker \in Addr, id \in IdInputs :
           /\ revoke_by_err(caller, revoker, id) /= "ok"
           /\ revoke_by(caller, revoker, id)

\* the step is a call of create_schema, attest or revoke_by that returns
ReturningCall ==
    \/ \E caller \in Addr, creator \in Creators, h \in Hash, revocable \in BOOLEAN,
          expires_allowed \in BOOLEAN, m \in Mode :
           /\ create_schema_err(caller, creator, h, m) = "ok"
           /\ create_schema(caller, creator, h, revocable, expires_allowed, m)
    \/ \E caller \in Addr, attester \in Addr, schema_id \in Hash, subject \in Subjects,
          data_hash \in DataHash, expiration \in ExpInputs, nonce \in U64 :
           /\ attest_err(caller, attester, schema_id, expiration, nonce) = "ok"
           /\ attest(caller, attester, schema_id, subject, data_hash, expiration, nonce)
    \/ \E caller \in Addr, revoker \in Addr, id \in IdInputs :
           /\ revoke_by_err(caller, revoker, id) = "ok"
           /\ revoke_by(caller, revoker, id)

\* C14: a failing create_schema, attest or revoke_by leaves schemas,
\* attestations, nonces, the identifier counter and the event log as they were;
\* so whenever one of them differs after a step, the step is a returning call.
C14_FailingCallAllOrNothing ==
    [][/\ FailingCall => UNCHANGED store
       /\ ~(UNCHANGED store) => ReturningCall]_vars

\* after identifiers and nonces were handed out, an attest call carrying the
\* caller's next nonce is refused with issuer_only
C14_Witness ==
    /\ is_some(next_att_id)
    /\ nonces /= <<>>
    /\ \E a \in Addr, s \in DOMAIN schemas :
           attest_err(a, a, s, None, saturating_add(get_nonce(a), 1)) = "issuer_only"

\* C15: verify returns None exactly for the identifiers under which nothing is
\* stored, every populated result has exists = true, and every identifier an
\* attest call returned is answered with a populated result.
C15_VerifyNoneIffAbsent ==
    /\ \A id \in IdInputs :
           /\ verify_of(id) = None <=> id \notin DOMAIN attestations
           /\ is_some(verify_of(id)) => unwrap(verify_of(id)).exists
    /\ \A i \in DOMAIN accepted :
           /\ is_some(verify_of(accepted[i].id))
           /\ unwrap(verify_of(accepted[i].id)).exists

\* attest has returned identifiers, one of them revoked since and one expired,
\* and some identifier is still unused
C15_Witness ==
    /\ \E i \in DOMAIN accepted : unwrap(verify_of(accepted[i].id)).revoked
    /\ \E i \in DOMAIN accepted : unwrap(verify_of(accepted[i].id)).expired
    /\ \E id \in IdInputs : verify_of(id) = None

\* C16: a step of verify, get_nonce, get_schema or get_attestation, returning or
\* panicking, leaves schemas, attestations, nonces, the identifier counter and
\* the event log as they were, and verify asked again right after a verify
\* step gives the same result.
C16_ReadsChangeNothing ==
    [][/\ (Verify \/ GetNonce \/ GetSchema \/ GetAttestation) => UNCHANGED store
       /\ \A id \in IdInputs : verify(id) => verify_of(id)' = verify_of(id)]_vars

\* there are records, nonces and a schema to read, one record is expired, and
\* get_attestation panics for some identifier
C16_Witness ==
    /\ nonces /= <<>>
    /\ \E h \in Hash : get_schema_err(h) = "ok"
    /\ \E id \in IdInputs : get_attestation_err(id) = "attestation_not_found"
    /\ \E id \in DOMAIN attestations :
           is_expired(attestations[id].expiration, now_ledger)

\* the step, if it is an attest call of attester a, leaves the nonce of every
\* other principal as it was
NoncesIndependent ==
    \A caller \in Addr, a \in Addr, schema_id \in Hash, subject \in Subjects,
       data_hash \in DataHash, expiration \in ExpInputs, nonce \in U64 :
        attest(caller, a, schema_id, subject, data_hash, expiration, nonce)
        => \A b \in Addr \ {a} : get_nonce(b)' = get_nonce(b)

\* C17: an attest call of A, accepted or rejected, never changes the nonce of
\* another principal B, and in every state the nonces of any two principals A
\* and B equal the numbers n1 and n2 of their accepted issuances.
C17_NoncesDoNotInteract ==
    /\ [][NoncesIndependent]_vars
    /\ [](\A a \in Addr : \A b \in Addr \ {a} :
              /\ get_nonce(a) = Cardinality(AttestedBy(a))
              /\ get_nonce(b) = Cardinality(AttestedBy(b)))

\* the step is a create_schema, attest or revoke_by call made by the principal
\* it names (creator, attester, revoker)
AuthorizedCall ==
    \/ \E creator \in Creators, h \in Hash, revocable \in BOOLEAN,
          expires_allowed \in BOOLEAN, m \in Mode :
           /\ create_schema(creator, creator, h, revocable, expires_allowed, m)
           /\ schemas'[h].creator = creator
    \/ \E attester \in Addr, schema_id \in Hash, subject \in Subjects,
          data_hash \in DataHash, expiration \in ExpInputs, nonce \in U64 :
           /\ attest(attester, attester, schema_id, subject, data_hash, expiration, nonce)
           /\ attestations'[next_attestation_id].attester = attester
    \/ \E revoker \in Addr, id \in IdInputs :
           /\ revoke_by(revoker, revoker, id)
           /\ id \in DOMAIN attestations
           /\ attestations[id].attester = revoker

\* C18: create_schema, attest and revoke_by called by anyone but the creator,
\* attester or revoker they name fail as unauthorized whatever the other
\* arguments and the state are, and every step that changes the stores is a
\* call made by the principal it names: the stored schema's creator, the stored
\* attestation's attester (whose nonce alone advances), the revoked
\* attestation's attester.
C18_NoMutationWithoutAuth ==
    /\ [](\A caller \in Addr : \A principal \in Addr \ {caller} :
              /\ \A h \in Hash, m \in Mode :
                     create_schema_err(caller, principal, h, m) = "unauthorized"
              /\ \A h \in Hash, exp \in ExpInputs, n \in U64 :
                     attest_err(caller, principal, h, exp, n) = "unauthorized"
              /\ \A id \in IdInputs :
                     revoke_by_err(caller, principal, id) = "unauthorized")
    /\ [][/\ ~(UNCHANGED store) => AuthorizedCall
          /\ \A a \in Addr :
                 get_nonce(a)' /= get_nonce(a)
                 => \E schema_id \in Hash, subject \in Subjects, data_hash \in DataHash,
                       expiration \in ExpInputs, nonce \in U64 :
                        attest(a, a, schema_id, subject, data_hash, expiration, nonce)]_vars

\* a schema was created, both principals attested and one attestation was
\* revoked
C18_Witness ==
    /\ schemas /= <<>>
    /\ \A a \in Addr : \E id \in DOMAIN attestations : attestations[id].attester = a
    /\ \E id \in DOMAIN attestations : attestations[id].revoked

\* the events of one kind
EventsOf(topic) == {i \in DOMAIN events : events[i].topic = topic}

\* C19: in every state the numbers of SchemaCreated, Attested and Revoked
\* events equal the numbers of stored schemas, stored attestations and revoked
\* attestations, and every Attested event carries the fields of the record
\* stored under its identifier.
C19_EventsMirrorState ==
    /\ Cardinality(EventsOf("SchemaCreated")) = Cardinality(DOMAIN schemas)
    /\ Cardinality(EventsOf("Attested")) = Cardinality(DOMAIN attestations)
    /\ Cardinality(EventsOf("Revoked")) =
           Cardinality({id \in DOMAIN attestations : attestations[id].revoked})
    /\ \A i \in EventsOf("Attested") :
           /\ events[i].attestation_id \in DOMAIN attestations
           /\ LET att == attestations[events[i].attestation_id]
              IN  /\ events[i].schema_id = att.schema_id
                  /\ events[i].attester = att.attester
                  /\ events[i].subject = att.subject
                  /\ events[i].data_hash = att.data_hash
                  /\ events[i].timestamp = att.timestamp
                  /\ events[i].expiration = att.expiration

\* schema identifiers an attest call may name: the registrable hashes and one
\* that is never registered
SchemaIdInputs == Hash \cup {"h0"}

\* C20: an authorized attest call fails with schema_not_found when the schema is
\* missing, else with expiration_not_allowed when the expiration is not
\* permitted, else with issuer_only when the attester is not permitted, whatever
\* the nonce is; bad_nonce is reported only when the three earlier checks pass
\* and the nonce is not get_nonce + 1.
C20_AttestCheckOrder ==
    \A a \in Addr, h \in SchemaIdInputs, exp \in ExpInputs, n \in U64 :
        LET err == attest_err(a, a, h, exp, n)
            missing == h \notin DOMAIN schemas
            exp_fails == ~missing /\ ~ExpirationPermitted(h, exp)
            issuer_fails == ~missing /\ ~AttesterPermitted(h, a)
        IN  /\ missing => err = "schema_not_found"
            /\ exp_fails => err = "expiration_not_allowed"
            /\ (issuer_fails /\ ~exp_fails) => err = "issuer_only"
            /\ err = "bad_nonce"
               => (~missing /\ ~exp_fails /\ ~issuer_fails /\ n /= get_nonce(a) + 1)

\* after attestations were issued, an attest call has a wrong nonce and fails
\* both policy checks of the registered schema, and the same call naming a
\* missing schema fails on the schema
C20_Witness ==
    \E a \in Addr, h \in DOMAIN schemas, exp \in ExpInputs, n \in U64 :
        /\ nonces /= <<>>
        /\ n /= get_nonce(a) + 1
        /\ ~ExpirationPermitted(h, exp)
        /\ ~AttesterPermitted(h, a)
        /\ attest_err(a, a, h, exp, n) = "expiration_not_allowed"
        /\ attest_err(a, a, "h0", exp, n) = "schema_not_found"

\* the revoke_by call returns without writing: every check passes and the
\* record is already revoked
RevokeIsNoOp(revoker, id) ==
    /\ revoke_by_err(revoker, revoker, id) = "ok"
    /\ attestations[id].revoked

\* C21: an authorized revoke_by call fails with attestation_not_found when
\* nothing is stored under the identifier, else with not_attester when the
\* revoker is not the record's attester (whatever the schema's revocable flag
\* and the record's revoked flag are), else with not_revocable when the schema
\* is not revocable; the call is a silent no-op only for the record's attester
\* under a revocable schema.
C21_RevokeCheckOrder ==
    \A r \in Addr, id \in IdInputs :
        LET err == revoke_by_err(r, r, id)
            missing == id \notin DOMAIN attestations
            stranger == ~missing /\ r /= attestations[id].attester
            fixed == /\ ~missing
                     /\ attestations[id].schema_id \in DOMAIN schemas
                     /\ ~schemas[attestations[id].schema_id].revocable
        IN  /\ missing => err = "attestation_not_found"
            /\ stranger => err = "not_attester"
            /\ (fixed /\ ~stranger) => err = "not_revocable"
            /\ err = "not_revocable" => (fixed /\ ~stranger)
            /\ (~missing /\ RevokeIsNoOp(r, id))
               => (/\ r = attestations[id].attester
                   /\ schemas[attestations[id].schema_id].revocable)

\* a record is revoked, its attester's repeated call is a no-op, another
\* principal's call on it is refused, and some identifier is unused
C21_Witness ==
    \E id \in DOMAIN attestations, r \in Addr :
        /\ attestations[id].revoked
        /\ RevokeIsNoOp(attestations[id].attester, id)
        /\ revoke_by_err(r, r, id) = "not_attester"
        /\ \E other \in IdInputs : revoke_by_err(r, r, other) = "attestation_not_found"

\* the step, if it is a create_schema call with an undefined attester_mode,
\* leaves the stores as they were
InvalidModeStoresNothing ==
    \A caller \in Addr, creator \in Creators, h \in Hash, revocable \in BOOLEAN,
       expires_allowed \in BOOLEAN, m \in Mode \ {MODE_PERMISSIONLESS, MODE_ISSUER_ONLY} :
        create_schema(caller, creator, h, revocable, expires_allowed, m)
        => UNCHANGED store

\* C22: an authorized create_schema call whose attester_mode is neither 0 nor 1
\* fails with invalid_attester_mode, on a registered hash as on a free one, and
\* stores nothing; every stored schema has attester_mode 0 or 1.
C22_InvalidModeRejectedFirst ==
    /\ [](/\ \A c \in Addr, h \in SchemaIdInputs :
                 \A m \in Mode \ {MODE_PERMISSIONLESS, MODE_ISSUER_ONLY} :
                     create_schema_err(c, c, h, m) = "invalid_attester_mode"
          /\ \A h \in DOMAIN schemas :
                 schemas[h].attester_mode \in {MODE_PERMISSIONLESS, MODE_ISSUER_ONLY})
    /\ [][InvalidModeStoresNothing]_vars

\* a hash is registered and another is free, and a call with attester_mode 2
\* is made on the registered one by someone who is not its creator
C22_Witness ==
    \E h \in DOMAIN schemas, c \in Addr :
        /\ c /= schemas[h].creator
        /\ create_schema_err(c, c, h, 2) = "invalid_attester_mode"
        /\ \E free \in SchemaIdInputs : free \notin DOMAIN schemas

\* C23: the schema_id of every stored attestation is the identifier of a
\* stored schema, and no authorized revoke_by call on a stored attestation
\* fails with schema_not_found.
C23_ReferentialIntegrity ==
    /\ \A id \in DOMAIN attestations : attestations[id].schema_id \in DOMAIN schemas
    /\ \A r \in Addr, id \in DOMAIN attestations :
           revoke_by_err(r, r, id) /= "schema_not_found"

\* attestations are stored, and revoke_by by the attester of one of them gets
\* as far as the schema lookup
C23_Witness ==
    /\ Cardinality(DOMAIN attestations) >= 2
    /\ \E id \in DOMAIN attestations :
           revoke_by_err(attestations[id].attester, attestations[id].attester, id)
               \in {"ok", "not_revocable"}

\* the sum of the nonces of the principals in S
RECURSIVE SumNonces(_)
SumNonces(S) ==
    IF S = {} THEN 0
    ELSE LET a == CHOOSE x \in S : TRUE IN get_nonce(a) + SumNonces(S \ {a})

\* C24: the identifier counter equals the number of stored attestations and the
\* sum of all nonces, the stored identifiers are exactly the encodings of
\* 1..counter, and each principal's nonce is the number of stored attestations
\* it issued.
C24_CounterConservation ==
    LET counter == unwrap_or(next_att_id, 0)
    IN  /\ counter = Cardinality(DOMAIN attestations)
        /\ counter = SumNonces(Addr)
        /\ DOMAIN attestations = {id_from_counter(n) : n \in 1..counter}
        /\ \A a \in Addr :
               get_nonce(a) =
                   Cardinality({id \in DOMAIN attestations : attestations[id].attester = a})

\* C25: once verify answers valid = false for an identifier it answers
\* valid = false after every later step, and once it answers expired = true it
\* answers expired = true after every later step.
C25_ValidityNeverComesBack ==
    [][\A id \in DOMAIN attestations :
           /\ ~unwrap(verify_of(id)).valid
              => (is_some(verify_of(id)') /\ ~unwrap(verify_of(id)').valid)
           /\ unwrap(verify_of(id)).expired
              => (is_some(verify_of(id)') /\ unwrap(verify_of(id)').expired)]_vars

====
